---- MODULE Spec2Model ----
(***************************************************************************)
(* Verification model of lsj-watermark-remover.                            *)
(*                                                                         *)
(* Region resolution (js/core/watermarkEngine.js, first definition of      *)
(* each symbol, lines 1-417), the engine life cycle and the processing     *)
(* queue (js/imageProcessor.js, the application entry point).              *)
(*                                                                         *)
(* Arithmetic.  The source computes in IEEE doubles and rounds with        *)
(* Math.round (floor(x + 1/2)).  Every value rounded here is a rational    *)
(* with a small denominator, so the double result and the exact rational   *)
(* fall on the same side of every half-integer:                            *)
(*   - 0.0762376*e - 60.15 = (95297*e - 75187500) / 1250000 and            *)
(*     0.0396040*e - 17.11 = (9901*e - 4277500) / 250000; a value that is  *)
(*     not an exact tie is at least 1e-7 away from one, far above the      *)
(*     double error; no edge below 10^5 is an exact tie;                   *)
(*   - m * (s / r) for the Doubao tables: exact ties need s / r dyadic,    *)
(*     which doubles represent exactly; other values are at least          *)
(*     1/(2r) away from a tie.                                             *)
(* The operators below therefore use integer floor division.               *)
(***************************************************************************)
EXTENDS Integers, Sequences, FiniteSets, TLC

\* ------------------------------------------------------------------------
\* Bounds of the model
\* ------------------------------------------------------------------------

\* image edges 1..MaxTinyEdge are all drawn (degenerate images)
MaxTinyEdge == 20

\* image edges 2049..2048+LargeSpan are all drawn (interpolated Gemini sizes)
LargeSpan == 50

\* file selections handled by handleFiles in one run of the page
MaxSelections == 2

\* files in one selection
MaxFiles == 2

\* calls made on an engine that is used directly
MaxCalls == 2

\* ------------------------------------------------------------------------
\* Constants of the program
\* ------------------------------------------------------------------------

WATERMARK_TYPE == [GEMINI |-> "gemini", DOUBAO |-> "doubao", UNKNOWN |-> "unknown"]

Undefined == "undefined"

\* const concurrency = 3 (processQueue)
concurrency == 3

DOUBAO_CONFIGS ==
    [c \in {"1x1", "2x3", "3x2"} |->
        CASE c = "1x1" -> [refWidth |-> 2048, refHeight |-> 2048, wmWidth |-> 282,
                           wmHeight |-> 123, marginRight |-> 57, marginBottom |-> 54]
          [] c = "2x3" -> [refWidth |-> 1672, refHeight |-> 2508, wmWidth |-> 225,
                           wmHeight |-> 43, marginRight |-> 50, marginBottom |-> 50]
          [] c = "3x2" -> [refWidth |-> 2508, refHeight |-> 1672, wmWidth |-> 296,
                           wmHeight |-> 71, marginRight |-> 53, marginBottom |-> 53]]

\* sizeSlope 0.0762376 = 95297/1250000, sizeIntercept -60.15 = -75187500/1250000,
\* marginSlope 0.0396040 = 9901/250000, marginIntercept -17.11 = -4277500/250000
GEMINI_SCALING ==
    [smallMaxEdge |-> 1024,
     sizeSlopeNum |-> 95297, sizeInterceptNum |-> -75187500, sizeDen |-> 1250000,
     marginSlopeNum |-> 9901, marginInterceptNum |-> -4277500, marginDen |-> 250000]

\* ------------------------------------------------------------------------
\* Pure functions of the region resolver
\* ------------------------------------------------------------------------

Min(a, b) == IF a <= b THEN a ELSE b

\* variant: truncation (Math.floor) instead of Math.round
MathRoundEven_Floor(n, d) == n \div d

\* Math.round(n / d) for d > 0 and d even: floor(n/d + 1/2)
MathRoundEven(n, d) == (n + d \div 2) \div d

\* variant: the scaled value is truncated instead of rounded
MathRoundScaled_Floor(m, s, r) == (m * s) \div r

\* Math.round(m * (s / r)) for m, s >= 0 and r > 0
MathRoundScaled(m, s, r) == (2 * m * s + r) \div (2 * r)

\* variant: the boundary ratios belong to the outer buckets (<= and >=)
getDoubaoAspectCategory_Inclusive(w, h) ==
    IF 5 * w <= 4 * h THEN "2x3"
    ELSE IF 5 * w >= 6 * h THEN "3x2"
    ELSE "1x1"

\* ratio = imageWidth / imageHeight; ratio < 0.8 is 5w < 4h, ratio > 1.2 is 5w > 6h
\* (the quotient of a double division is correctly rounded, so w/h = 4/5 yields the
\* double that the literal 0.8 denotes, and likewise for 1.2)
getDoubaoAspectCategory(w, h) ==
    IF 5 * w < 4 * h THEN "2x3"
    ELSE IF 5 * w > 6 * h THEN "3x2"
    ELSE "1x1"

\* variant: no fixed buckets, every short edge is interpolated
calculateGeminiConfig_InterpolateAll(w, h) ==
    LET shortEdge == Min(w, h)
        logoSize == MathRoundEven(GEMINI_SCALING.sizeSlopeNum * shortEdge
                                    + GEMINI_SCALING.sizeInterceptNum,
                                  GEMINI_SCALING.sizeDen)
        margin == MathRoundEven(GEMINI_SCALING.marginSlopeNum * shortEdge
                                    + GEMINI_SCALING.marginInterceptNum,
                                GEMINI_SCALING.marginDen)
    IN  [type |-> WATERMARK_TYPE.GEMINI, aspectCategory |-> Undefined,
         sizeCategory |-> "large", width |-> logoSize, height |-> logoSize,
         logoSize |-> logoSize, marginRight |-> margin, marginBottom |-> margin,
         sourceTemplate |-> "96"]

\* variant: the small bucket ends below 1024 (shortEdge < smallMaxEdge)
calculateGeminiConfig_SmallExclusive(w, h) ==
    LET shortEdge == Min(w, h)
        logoSize == MathRoundEven(GEMINI_SCALING.sizeSlopeNum * shortEdge
                                    + GEMINI_SCALING.sizeInterceptNum,
                                  GEMINI_SCALING.sizeDen)
        margin == MathRoundEven(GEMINI_SCALING.marginSlopeNum * shortEdge
                                    + GEMINI_SCALING.marginInterceptNum,
                                GEMINI_SCALING.marginDen)
    IN  IF shortEdge < GEMINI_SCALING.smallMaxEdge
        THEN [type |-> WATERMARK_TYPE.GEMINI, aspectCategory |-> Undefined,
              sizeCategory |-> "small", width |-> 48, height |-> 48, logoSize |-> 48,
              marginRight |-> 32, marginBottom |-> 32, sourceTemplate |-> "48"]
        ELSE IF shortEdge <= 2048
        THEN [type |-> WATERMARK_TYPE.GEMINI, aspectCategory |-> Undefined,
              sizeCategory |-> "medium", width |-> 96, height |-> 96, logoSize |-> 96,
              marginRight |-> 64, marginBottom |-> 64, sourceTemplate |-> "96"]
        ELSE [type |-> WATERMARK_TYPE.GEMINI, aspectCategory |-> Undefined,
              sizeCategory |-> "large", width |-> logoSize, height |-> logoSize,
              logoSize |-> logoSize, marginRight |-> margin, marginBottom |-> margin,
              sourceTemplate |-> "96"]

\* variant: the size is interpolated from the longer edge (Math.max)
calculateGeminiConfig_LongEdge(w, h) ==
    LET shortEdge == Min(w, h)
        longEdge == IF w >= h THEN w ELSE h
        logoSize == MathRoundEven(GEMINI_SCALING.sizeSlopeNum * longEdge
                                    + GEMINI_SCALING.sizeInterceptNum,
                                  GEMINI_SCALING.sizeDen)
        margin == MathRoundEven(GEMINI_SCALING.marginSlopeNum * longEdge
                                    + GEMINI_SCALING.marginInterceptNum,
                                GEMINI_SCALING.marginDen)
    IN  IF shortEdge <= GEMINI_SCALING.smallMaxEdge
        THEN [type |-> WATERMARK_TYPE.GEMINI, aspectCategory |-> Undefined,
              sizeCategory |-> "small", width |-> 48, height |-> 48, logoSize |-> 48,
              marginRight |-> 32, marginBottom |-> 32, sourceTemplate |-> "48"]
        ELSE IF shortEdge <= 2048
        THEN [type |-> WATERMARK_TYPE.GEMINI, aspectCategory |-> Undefined,
              sizeCategory |-> "medium", width |-> 96, height |-> 96, logoSize |-> 96,
              marginRight |-> 64, marginBottom |-> 64, sourceTemplate |-> "96"]
        ELSE [type |-> WATERMARK_TYPE.GEMINI, aspectCategory |-> Undefined,
              sizeCategory |-> "large", width |-> logoSize, height |-> logoSize,
              logoSize |-> logoSize, marginRight |-> margin, marginBottom |-> margin,
              sourceTemplate |-> "96"]

calculateGeminiConfig(w, h) ==
    LET shortEdge == Min(w, h)
        logoSize == MathRoundEven(GEMINI_SCALING.sizeSlopeNum * shortEdge
                                    + GEMINI_SCALING.sizeInterceptNum,
                                  GEMINI_SCALING.sizeDen)
        margin == MathRoundEven(GEMINI_SCALING.marginSlopeNum * shortEdge
                                    + GEMINI_SCALING.marginInterceptNum,
                                GEMINI_SCALING.marginDen)
    IN  IF shortEdge <= GEMINI_SCALING.smallMaxEdge
        THEN [type |-> WATERMARK_TYPE.GEMINI, aspectCategory |-> Undefined,
              sizeCategory |-> "small", width |-> 48, height |-> 48, logoSize |-> 48,
              marginRight |-> 32, marginBottom |-> 32, sourceTemplate |-> "48"]
        ELSE IF shortEdge <= 2048
        THEN [type |-> WATERMARK_TYPE.GEMINI, aspectCategory |-> Undefined,
              sizeCategory |-> "medium", width |-> 96, height |-> 96, logoSize |-> 96,
              marginRight |-> 64, marginBottom |-> 64, sourceTemplate |-> "96"]
        ELSE [type |-> WATERMARK_TYPE.GEMINI, aspectCategory |-> Undefined,
              sizeCategory |-> "large", width |-> logoSize, height |-> logoSize,
              logoSize |-> logoSize, marginRight |-> margin, marginBottom |-> margin,
              sourceTemplate |-> "96"]

\* variant: width and height scaled independently (imageWidth / refWidth and
\* imageHeight / refHeight) instead of by the shorter-edge ratio
detectWatermarkConfig_PerAxis(w, h, watermarkType) ==
    IF watermarkType = WATERMARK_TYPE.DOUBAO
    THEN LET aspectCategory == getDoubaoAspectCategory(w, h)
             cfg == DOUBAO_CONFIGS[aspectCategory]
         IN  [type |-> WATERMARK_TYPE.DOUBAO, aspectCategory |-> aspectCategory,
              sizeCategory |-> Undefined,
              width |-> MathRoundScaled(cfg.wmWidth, w, cfg.refWidth),
              height |-> MathRoundScaled(cfg.wmHeight, h, cfg.refHeight),
              logoSize |-> -1,
              marginRight |-> MathRoundScaled(cfg.marginRight, w, cfg.refWidth),
              marginBottom |-> MathRoundScaled(cfg.marginBottom, h, cfg.refHeight),
              sourceTemplate |-> Undefined]
    ELSE calculateGeminiConfig(w, h)

\* logoSize of a Doubao config is absent in the source; -1 stands for it and is
\* never read (getAlphaMap reads logoSize only on the Gemini branch)
detectWatermarkConfig(w, h, watermarkType) ==
    IF watermarkType = WATERMARK_TYPE.DOUBAO
    THEN LET aspectCategory == getDoubaoAspectCategory(w, h)
             cfg == DOUBAO_CONFIGS[aspectCategory]
             refShortEdge == Min(cfg.refWidth, cfg.refHeight)
             imgShortEdge == Min(w, h)
         IN  [type |-> WATERMARK_TYPE.DOUBAO, aspectCategory |-> aspectCategory,
              sizeCategory |-> Undefined,
              width |-> MathRoundScaled(cfg.wmWidth, imgShortEdge, refShortEdge),
              height |-> MathRoundScaled(cfg.wmHeight, imgShortEdge, refShortEdge),
              logoSize |-> -1,
              marginRight |-> MathRoundScaled(cfg.marginRight, imgShortEdge, refShortEdge),
              marginBottom |-> MathRoundScaled(cfg.marginBottom, imgShortEdge, refShortEdge),
              sourceTemplate |-> Undefined]
    ELSE calculateGeminiConfig(w, h)

\* variant: the offset forgets the watermark's own extent
calculateWatermarkPosition_MarginOnly(w, h, cfg) ==
    [x |-> w - cfg.marginRight,
     y |-> h - cfg.marginBottom,
     width |-> cfg.width,
     height |-> cfg.height]

calculateWatermarkPosition(w, h, cfg) ==
    [x |-> w - cfg.marginRight - cfg.width,
     y |-> h - cfg.marginBottom - cfg.height,
     width |-> cfg.width,
     height |-> cfg.height]

\* The reference capture and the source crop getAlphaMap scales from
\* ("full" is the capture's own width x height)
AlphaSource(cfg) ==
    IF cfg.type = WATERMARK_TYPE.DOUBAO
    THEN [capture |-> "doubao" \o (IF cfg.aspectCategory = Undefined THEN "1x1"
                                   ELSE cfg.aspectCategory),
          crop |-> "full"]
    ELSE IF cfg.sourceTemplate = "48" \/ cfg.logoSize <= 48
    THEN [capture |-> "bg48", crop |-> "48x48"]
    ELSE [capture |-> "bg96", crop |-> "96x96"]

\* ------------------------------------------------------------------------
\* Engine operations
\* ------------------------------------------------------------------------

NullEngine == [null |-> TRUE]

NoImage == [null |-> TRUE]

NoResult == [type |-> "none"]

EmptyRegion == [empty |-> TRUE]

NoMaps == [k \in {} |-> NoResult]

\* new WatermarkEngine(bgCaptures): bgCaptures are the five loaded captures
NewEngine == [alphaMaps |-> NoMaps, currentWatermarkType |-> WATERMARK_TYPE.GEMINI]

\* variant: the key leaves out the bucket (aspectCategory or sizeCategory)
CacheKey_WithoutBucket(cfg) == <<cfg.type, "default", cfg.width, cfg.height>>

\* variant: the cache key leaves out the width and height
CacheKey_WithoutSize(cfg) ==
    <<cfg.type,
      IF cfg.aspectCategory # Undefined THEN cfg.aspectCategory
      ELSE IF cfg.sizeCategory # Undefined THEN cfg.sizeCategory
      ELSE "default",
      0, 0>>

\* `${type}_${aspectCategory || sizeCategory || 'default'}_${width}x${height}`
CacheKey(cfg) ==
    <<cfg.type,
      IF cfg.aspectCategory # Undefined THEN cfg.aspectCategory
      ELSE IF cfg.sizeCategory # Undefined THEN cfg.sizeCategory
      ELSE "default",
      cfg.width, cfg.height>>

\* variant: the canvas has the size of the source crop, not of the watermark
DeriveAlphaMap_SourceSize(cfg) ==
    [capture |-> AlphaSource(cfg).capture, crop |-> AlphaSource(cfg).crop,
     width |-> IF AlphaSource(cfg).crop = "48x48" THEN 48 ELSE 96,
     height |-> IF AlphaSource(cfg).crop = "48x48" THEN 48 ELSE 96]

\* the alpha map derived by drawing the selected crop of the selected capture
\* onto a width x height canvas and converting it with calculateAlphaMap
DeriveAlphaMap(cfg) ==
    [capture |-> AlphaSource(cfg).capture, crop |-> AlphaSource(cfg).crop,
     width |-> cfg.width, height |-> cfg.height]

\* variant: the cache entry is created before the canvas is read back
getAlphaMap_EntryBeforeRead(alphaMaps, cfg) ==
    LET cacheKey == CacheKey(cfg)
    IN  IF cacheKey \in DOMAIN alphaMaps
        THEN [threw |-> FALSE, alphaMap |-> alphaMaps[cacheKey], alphaMaps |-> alphaMaps]
        ELSE IF cfg.width = 0 \/ cfg.height = 0
        THEN [threw |-> TRUE, alphaMap |-> NoResult,
              alphaMaps |-> (cacheKey :> NoResult) @@ alphaMaps]
        ELSE [threw |-> FALSE, alphaMap |-> DeriveAlphaMap(cfg),
              alphaMaps |-> (cacheKey :> DeriveAlphaMap(cfg)) @@ alphaMaps]

\* variant: a freshly derived map replaces the whole cache
getAlphaMap_Evicting(alphaMaps, cfg) ==
    LET cacheKey == CacheKey(cfg)
    IN  IF cacheKey \in DOMAIN alphaMaps
        THEN [threw |-> FALSE, alphaMap |-> alphaMaps[cacheKey], alphaMaps |-> alphaMaps]
        ELSE IF cfg.width = 0 \/ cfg.height = 0
        THEN [threw |-> TRUE, alphaMap |-> NoResult, alphaMaps |-> alphaMaps]
        ELSE [threw |-> FALSE, alphaMap |-> DeriveAlphaMap(cfg),
              alphaMaps |-> (cacheKey :> DeriveAlphaMap(cfg))]

\* getAlphaMap has no await: it runs to completion inside the caller's step.
\* getImageData on a canvas with a zero width or height throws (IndexSizeError).
getAlphaMap(alphaMaps, cfg) ==
    LET cacheKey == CacheKey(cfg)
    IN  IF cacheKey \in DOMAIN alphaMaps
        THEN [threw |-> FALSE, alphaMap |-> alphaMaps[cacheKey], alphaMaps |-> alphaMaps]
        ELSE IF cfg.width = 0 \/ cfg.height = 0
        THEN [threw |-> TRUE, alphaMap |-> NoResult, alphaMaps |-> alphaMaps]
        ELSE [threw |-> FALSE, alphaMap |-> DeriveAlphaMap(cfg),
              alphaMaps |-> (cacheKey :> DeriveAlphaMap(cfg)) @@ alphaMaps]

Max(a, b) == IF a >= b THEN a ELSE b

\* removeWatermark(imageData, alphaMap, position): every pixel of the buffer
\* that lies inside the rectangle is rewritten; the result is that region
removeWatermark(image, alphaMap, pos) ==
    LET x0 == Max(0, pos.x)
        y0 == Max(0, pos.y)
        x1 == Min(image.width, pos.x + pos.width)
        y1 == Min(image.height, pos.y + pos.height)
    IN  IF x0 < x1 /\ y0 < y1
        THEN [x0 |-> x0, y0 |-> y0, x1 |-> x1, y1 |-> y1]
        ELSE EmptyRegion

\* the rectangle lies inside the image
RectFits(image, pos) ==
    /\ pos.x >= 0 /\ pos.y >= 0
    /\ pos.width >= 0 /\ pos.height >= 0
    /\ pos.x + pos.width <= image.width
    /\ pos.y + pos.height <= image.height

\* removeWatermarkFromImage from the resolved rectangle on: the alpha map is
\* obtained (an exception of getAlphaMap rejects the call), removeWatermark
\* rewrites the buffer, the canvas is returned
RestoreWithMap(eng, image, cfg, pos, am) ==
    IF am.threw
    THEN [outcome |-> "error", called |-> TRUE,
          engine |-> [eng EXCEPT !.alphaMaps = am.alphaMaps], config |-> cfg,
          position |-> pos, fits |-> RectFits(image, pos), alphaMap |-> NoResult,
          touched |-> EmptyRegion]
    ELSE [outcome |-> "ok", called |-> TRUE,
          engine |-> [eng EXCEPT !.alphaMaps = am.alphaMaps], config |-> cfg,
          position |-> pos, fits |-> RectFits(image, pos), alphaMap |-> am.alphaMap,
          touched |-> removeWatermark(image, am.alphaMap, pos)]

\* removeWatermarkFromImage from the detected config on
RestoreWithConfig(eng, image, cfg) ==
    RestoreWithMap(eng, image, cfg,
                   calculateWatermarkPosition(image.width, image.height, cfg),
                   getAlphaMap(eng.alphaMaps, cfg))

\* variant: the watermarkType argument is stored as the engine's current type
removeWatermarkFromImage_Sticky(eng, image, wtype) ==
    IF eng = NullEngine \/ image = NoImage
    THEN [outcome |-> "TypeError", called |-> eng # NullEngine, engine |-> eng,
          config |-> NoResult, position |-> NoResult, fits |-> TRUE,
          alphaMap |-> NoResult, touched |-> EmptyRegion]
    ELSE RestoreWithConfig(
             [eng EXCEPT !.currentWatermarkType =
                             IF wtype = Undefined THEN @ ELSE wtype],
             image,
             detectWatermarkConfig(image.width, image.height,
                 IF wtype = Undefined THEN eng.currentWatermarkType ELSE wtype))

\* engine.removeWatermarkFromImage(image, watermarkType), called on the module's
\* engine variable: a null engine or a null image raises a TypeError before any
\* engine step; the awaits inside resolve in microtasks, so the call is one step.
\* watermarkType = Undefined is the omitted argument.
removeWatermarkFromImage(eng, image, wtype) ==
    IF eng = NullEngine \/ image = NoImage
    THEN [outcome |-> "TypeError", called |-> eng # NullEngine, engine |-> eng,
          config |-> NoResult, position |-> NoResult, fits |-> TRUE,
          alphaMap |-> NoResult, touched |-> EmptyRegion]
    ELSE RestoreWithConfig(eng, image,
             detectWatermarkConfig(image.width, image.height,
                 IF wtype = Undefined THEN eng.currentWatermarkType ELSE wtype))

\* variant: every argument is stored
setWatermarkType_Unchecked(eng, type) ==
    [eng EXCEPT !.currentWatermarkType = type]

\* engine.setWatermarkType(type): only a value of WATERMARK_TYPE is stored
setWatermarkType(eng, type) ==
    IF type \in {WATERMARK_TYPE.GEMINI, WATERMARK_TYPE.DOUBAO, WATERMARK_TYPE.UNKNOWN}
    THEN [eng EXCEPT !.currentWatermarkType = type]
    ELSE eng

\* engine.getWatermarkInfo(imageWidth, imageHeight, watermarkType), the fields
\* the callers read
WatermarkInfo(w, h, cfg) ==
    [type |-> cfg.type, size |-> cfg.width, sizeCategory |-> cfg.sizeCategory,
     position |-> calculateWatermarkPosition(w, h, cfg), config |-> cfg]

getWatermarkInfo(eng, w, h, wtype) ==
    WatermarkInfo(w, h,
        detectWatermarkConfig(w, h,
            IF wtype = Undefined THEN eng.currentWatermarkType ELSE wtype))

\* ------------------------------------------------------------------------
\* Reverse compositor, one channel of one pixel.  Opacities are thousandths
\* (a = alpha / 1000) and the arithmetic is exact.
\* ------------------------------------------------------------------------

AlphaScale == 1000

\* the safety ceiling 0.999
AlphaCeiling == 999

Bytes == 0 .. 255

\* rounded and clamped to [0, 255]
ClampByte(v) == IF v < 0 THEN 0 ELSE IF v > 255 THEN 255 ELSE v

\* round to nearest of n / d for d > 0: floor(n/d + 1/2)
RoundQuotient(n, d) == (2 * n + d) \div (2 * d)

\* the forward model C_obs = a*F + (1-a)*C_true, stored as a byte
compositeForward(alpha, tint, true) ==
    ClampByte(RoundQuotient(alpha * tint + (AlphaScale - alpha) * true, AlphaScale))

\* variant: the quotient is truncated instead of rounded
applyReverseBlend_Truncating(alpha, tint, observed) ==
    ClampByte((AlphaScale * observed - Min(alpha, AlphaCeiling) * tint)
                 \div (AlphaScale - Min(alpha, AlphaCeiling)))

\* variant: the result is not clamped to the byte range
applyReverseBlend_Unclamped(alpha, tint, observed) ==
    RoundQuotient(AlphaScale * observed - Min(alpha, AlphaCeiling) * tint,
                  AlphaScale - Min(alpha, AlphaCeiling))

\* the inversion C_true = (C_obs - a*F) / (1 - a) with a clamped to the
\* ceiling first, rounded and clamped to [0, 255]
applyReverseBlend(alpha, tint, observed) ==
    ClampByte(RoundQuotient(AlphaScale * observed - Min(alpha, AlphaCeiling) * tint,
                            AlphaScale - Min(alpha, AlphaCeiling)))

\* ------------------------------------------------------------------------
\* State
\* ------------------------------------------------------------------------

VARIABLES
    imageWidth,     \* region resolution: the image's width
    imageHeight,    \* region resolution: the image's height
    watermarkType,  \* region resolution: the watermarkType argument
    config,         \* region resolution: result of detectWatermarkConfig, or NoResult
    position,       \* region resolution: result of calculateWatermarkPosition
    alphaSource,    \* region resolution: the capture getAlphaMap scales from
    captures,       \* the five reference captures: "idle", "pending", "loaded", "failed"
    createState,    \* WatermarkEngine.create(): "notCalled", "loading", "resolved", "rejected"
    i18nState,      \* i18n.init(): "notCalled", "pending", "resolved", "rejected"
    initState,      \* init(): "notStarted", "awaiting", "ready" (listeners installed), "failed"
    engine,         \* imageProcessor's engine: NullEngine or the engine object
    imageQueue,     \* imageProcessor's imageQueue: sequence of item ids
    processedCount, \* imageProcessor's processedCount
    items,          \* every queue item ever created (items outlive the queue in closures)
    runs,           \* the processSingle / processQueue calls started so far
    downloadAllShown, \* the download-all button is displayed
    lastSelection,  \* fate of the latest file selection: "none", "ignored", "handled"
    calls,          \* the engine called directly: the calls made so far, in order
    blendAlpha,     \* reverse blend of one channel: the opacity a, in thousandths
    blendTint,      \* reverse blend of one channel: the tint F (byte)
    blendTrue,      \* reverse blend of one channel: C_true (byte), -1 when unknown
    blendObserved,  \* reverse blend of one channel: C_obs (byte), -1 before compositing
    blendRestored   \* reverse blend of one channel: <<restored value>>, <<>> before

regionVars == <<imageWidth, imageHeight, watermarkType, config, position, alphaSource>>

appVars == <<captures, createState, i18nState, initState, engine, imageQueue,
             processedCount, items, runs, downloadAllShown, lastSelection>>

libraryVars == <<calls>>

blendVars == <<blendAlpha, blendTint, blendTrue, blendObserved, blendRestored>>

vars == <<imageWidth, imageHeight, watermarkType, config, position, alphaSource,
          captures, createState, i18nState, initState, engine, imageQueue,
          processedCount, items, runs, downloadAllShown, lastSelection, calls,
          blendAlpha, blendTint, blendTrue, blendObserved, blendRestored>>

CaptureNames == {"bg48", "bg96", "doubao1x1", "doubao2x3", "doubao3x2"}

\* no channel is being blended
BlendIdle ==
    /\ blendAlpha = 0
    /\ blendTint = 0
    /\ blendTrue = 0
    /\ blendObserved = -1
    /\ blendRestored = <<>>

\* the state of the page before DOMContentLoaded
InitApp ==
    /\ captures = [c \in CaptureNames |-> "idle"]
    /\ createState = "notCalled"
    /\ i18nState = "notCalled"
    /\ initState = "notStarted"
    /\ engine = NullEngine
    /\ imageQueue = <<>>
    /\ processedCount = 0
    /\ items = <<>>
    /\ runs = <<>>
    /\ downloadAllShown = FALSE
    /\ lastSelection = "none"
    /\ calls = <<>>

\* ------------------------------------------------------------------------
\* Region resolution as a state machine: one image, one resolution
\* ------------------------------------------------------------------------

Edges ==
    (1 .. MaxTinyEdge)
    \cup {79, 80, 512, 836, 1023, 1024, 1025, 1672, 2047, 2048, 2508, 3058, 4096}
    \cup (2049 .. 2048 + LargeSpan)

WatermarkArgs == {WATERMARK_TYPE.GEMINI, WATERMARK_TYPE.DOUBAO, WATERMARK_TYPE.UNKNOWN}

InitRegion ==
    /\ imageWidth \in Edges
    /\ imageHeight \in Edges
    /\ watermarkType \in WatermarkArgs
    /\ config = NoResult
    /\ position = NoResult
    /\ alphaSource = NoResult
    /\ BlendIdle
    /\ InitApp

\* getWatermarkInfo(imageWidth, imageHeight, watermarkType) followed by the
\* template selection of getAlphaMap(config)
ResolveRegion ==
    /\ config = NoResult
    /\ config' = detectWatermarkConfig(imageWidth, imageHeight, watermarkType)
    /\ position' = calculateWatermarkPosition(imageWidth, imageHeight, config')
    /\ alphaSource' = AlphaSource(config')
    /\ UNCHANGED <<imageWidth, imageHeight, watermarkType>>
    /\ UNCHANGED appVars
    /\ UNCHANGED libraryVars
    /\ UNCHANGED blendVars

NextRegion == ResolveRegion

SpecRegion == InitRegion /\ [][NextRegion]_vars

\* ------------------------------------------------------------------------
\* The application: initialization, file selection, processing
\* ------------------------------------------------------------------------

\* 20 * 1024 * 1024
MaxFileBytes == 20971520

\* MIME types are sequences of tokens: "image/png" is <<"image/", "png">> and
\* "image/jpeg2000" is <<"image/", "jpeg", "2000">>
MimePng == <<"image/", "png">>

MimeGif == <<"image/", "gif">>

MimeJpeg == <<"image/", "jpeg">>

MimeWebp == <<"image/", "webp">>

MimeJpeg2000 == <<"image/", "jpeg", "2000">>

\* the files a user can select
Files ==
    {[type |-> MimePng, size |-> 1024],
     [type |-> MimeGif, size |-> 1024],
     [type |-> MimePng, size |-> MaxFileBytes + 1]}

\* the decoded sizes a valid file can have
ImageSizes == {[width |-> 60, height |-> 60], [width |-> 2048, height |-> 2048]}

Selections == UNION {[1 .. n -> Files] : n \in 1 .. MaxFiles}

\* file.type.match('image/(jpeg|png|webp)'): the pattern is not anchored, it
\* matches wherever "image/" is followed by one of the three names
TypeMatches(type) ==
    \E i \in 1 .. Len(type) - 1 :
        type[i] = "image/" /\ type[i + 1] \in {"jpeg", "png", "webp"}

\* file.type.match('image/(jpeg|png|webp)') and file.size <= 20 MiB
IsValidFile(file) ==
    /\ TypeMatches(file.type)
    /\ file.size <= MaxFileBytes

filterValidFiles(files) == SelectSeq(files, IsValidFile)

NewItem(file) ==
    [file |-> file, status |-> "pending", originalImg |-> NoImage,
     processedBlob |-> "null", processedUrl |-> "null", restore |-> NoResult]

\* what a call of removeWatermarkFromImage left behind, kept with the item
RestoreRecord(r) ==
    [outcome |-> r.outcome, called |-> r.called, position |-> r.position,
     fits |-> r.fits, touched |-> r.touched]

AllLoaded(cs) == \A c \in CaptureNames : cs[c] = "loaded"

\* variant: setupEventListeners() runs before the await
StartInit_ListenersFirst ==
    /\ initState = "notStarted"
    /\ initState' = "ready"
    /\ i18nState' = "pending"
    /\ createState' = "loading"
    /\ captures' = [c \in CaptureNames |-> "pending"]
    /\ UNCHANGED <<engine, imageQueue, processedCount, items, runs,
                   downloadAllShown, lastSelection>>
    /\ UNCHANGED regionVars
    /\ UNCHANGED blendVars
    /\ UNCHANGED libraryVars

\* DOMContentLoaded: init() calls i18n.init() and processor.initEngine(), which
\* calls WatermarkEngine.create(), which sets the src of the five captures
StartInit ==
    /\ initState = "notStarted"
    /\ initState' = "awaiting"
    /\ i18nState' = "pending"
    /\ createState' = "loading"
    /\ captures' = [c \in CaptureNames |-> "pending"]
    /\ UNCHANGED <<engine, imageQueue, processedCount, items, runs,
                   downloadAllShown, lastSelection>>
    /\ UNCHANGED regionVars
    /\ UNCHANGED blendVars
    /\ UNCHANGED libraryVars

\* onload of a capture; the last one resolves Promise.all, create() returns the
\* engine, initEngine stores it, and init() goes on if i18n.init() has resolved
CaptureLoaded(c) ==
    /\ captures[c] = "pending"
    /\ captures' = [captures EXCEPT ![c] = "loaded"]
    /\ IF createState = "loading" /\ AllLoaded(captures')
       THEN /\ createState' = "resolved"
            /\ engine' = NewEngine
            /\ initState' = IF initState = "awaiting" /\ i18nState = "resolved"
                            THEN "ready" ELSE initState
       ELSE UNCHANGED <<createState, engine, initState>>
    /\ UNCHANGED <<i18nState, imageQueue, processedCount, items, runs,
                   downloadAllShown, lastSelection>>
    /\ UNCHANGED regionVars
    /\ UNCHANGED blendVars
    /\ UNCHANGED libraryVars

\* variant: onerror settles the capture's promise like onload (onerror = resolve)
CaptureFailed_Resolves(c) ==
    /\ captures[c] = "pending"
    /\ captures' = [captures EXCEPT ![c] = "failed"]
    /\ IF createState = "loading" /\ \A d \in CaptureNames : captures'[d] # "pending"
       THEN /\ createState' = "resolved"
            /\ engine' = NewEngine
            /\ initState' = IF initState = "awaiting" /\ i18nState = "resolved"
                            THEN "ready" ELSE initState
       ELSE UNCHANGED <<createState, engine, initState>>
    /\ UNCHANGED <<i18nState, imageQueue, processedCount, items, runs,
                   downloadAllShown, lastSelection>>
    /\ UNCHANGED regionVars
    /\ UNCHANGED blendVars
    /\ UNCHANGED libraryVars

\* onerror of a capture: Promise.all rejects, create() and initEngine() reject,
\* init() lands in its catch block
CaptureFailed(c) ==
    /\ captures[c] = "pending"
    /\ captures' = [captures EXCEPT ![c] = "failed"]
    /\ IF createState = "loading"
       THEN /\ createState' = "rejected"
            /\ initState' = IF initState = "awaiting" THEN "failed" ELSE initState
       ELSE UNCHANGED <<createState, initState>>
    /\ UNCHANGED <<engine, i18nState, imageQueue, processedCount, items, runs,
                   downloadAllShown, lastSelection>>
    /\ UNCHANGED regionVars
    /\ UNCHANGED blendVars
    /\ UNCHANGED libraryVars

I18nResolved ==
    /\ i18nState = "pending"
    /\ i18nState' = "resolved"
    /\ initState' = IF initState = "awaiting" /\ createState = "resolved"
                    THEN "ready" ELSE initState
    /\ UNCHANGED <<captures, createState, engine, imageQueue, processedCount, items,
                   runs, downloadAllShown, lastSelection>>
    /\ UNCHANGED regionVars
    /\ UNCHANGED blendVars
    /\ UNCHANGED libraryVars

I18nRejected ==
    /\ i18nState = "pending"
    /\ i18nState' = "rejected"
    /\ initState' = IF initState = "awaiting" THEN "failed" ELSE initState
    /\ UNCHANGED <<captures, createState, engine, imageQueue, processedCount, items,
                   runs, downloadAllShown, lastSelection>>
    /\ UNCHANGED regionVars
    /\ UNCHANGED blendVars
    /\ UNCHANGED libraryVars

\* the user selects or drops files before setupFileUpload has run: no listener
\* is installed, nothing is called
FilesSelectedEarly ==
    /\ initState # "ready"
    /\ lastSelection' = "ignored"
    /\ UNCHANGED <<captures, createState, i18nState, initState, engine, imageQueue,
                   processedCount, items, runs, downloadAllShown>>
    /\ UNCHANGED regionVars
    /\ UNCHANGED blendVars
    /\ UNCHANGED libraryVars

\* one item of a slice whose status is 'pending': it becomes 'processing' and
\* removeWatermarkFromImage (result r) runs; a failed restore settles the item
\* as 'error' at once, otherwise its toBlob callback is awaited
StartItem(st, id, r) ==
    [items |-> [st.items EXCEPT ![id] =
                   [@ EXCEPT !.status = IF r.outcome = "ok" THEN "processing" ELSE "error",
                             !.restore = RestoreRecord(r)]],
     engine |-> r.engine,
     waiting |-> IF r.outcome = "ok" THEN st.waiting \cup {id} ELSE st.waiting]

\* the items of one slice, started in order; items that are not 'pending' return
RECURSIVE StartItems(_, _, _)
StartItems(st, ids, k) ==
    IF k > Len(ids) THEN st
    ELSE IF st.items[ids[k]].status # "pending" THEN StartItems(st, ids, k + 1)
    ELSE StartItems(
            StartItem(st, ids[k],
                      removeWatermarkFromImage(st.engine, st.items[ids[k]].originalImg,
                                               Undefined)),
            ids, k + 1)

\* the for loop of processQueue from offset i over the current imageQueue, up to
\* its next suspension: a slice with nothing to wait for is followed by the next
RECURSIVE RunBatches(_, _, _, _)
\* variant: the loop suspends after every slice, also one that started nothing
AfterSlice_AlwaysSuspends(st, queue, i) ==
    [items |-> st.items, engine |-> st.engine, pc |-> "batch",
     i |-> i, waiting |-> st.waiting]

AfterSlice(st, queue, i) ==
    IF st.waiting = {}
    THEN RunBatches(st.items, st.engine, queue, i + concurrency)
    ELSE [items |-> st.items, engine |-> st.engine, pc |-> "batch",
          i |-> i, waiting |-> st.waiting]

RunBatches(its, eng, queue, i) ==
    IF i >= Len(queue)
    THEN [items |-> its, engine |-> eng, pc |-> "done", i |-> i, waiting |-> {}]
    ELSE AfterSlice(StartItems([items |-> its, engine |-> eng, waiting |-> {}],
                               SubSeq(queue, i + 1, Min(i + concurrency, Len(queue))), 1),
                    queue, i)

\* the state after the batch loop of run r went on to st; at the end of the loop
\* the download-all button is shown if processedCount (count) is positive
ContinueRun(r, loads, st, count) ==
    /\ items' = st.items
    /\ engine' = st.engine
    /\ runs' = [runs EXCEPT ![r] = [@ EXCEPT !.loads = loads, !.pc = st.pc,
                                             !.i = st.i, !.waiting = st.waiting]]
    /\ downloadAllShown' = (downloadAllShown \/ (st.pc = "done" /\ count > 0))

\* handleFiles(files): filterValidFiles, createImageQueue, then processSingle
\* for one file and processQueue (up to its first await) for several
HandleFiles(files) ==
    /\ initState = "ready"
    /\ Len(runs) < MaxSelections
    /\ LET validFiles == filterValidFiles(files)
           n == Len(validFiles)
           ids == [k \in 1 .. n |-> Len(items) + k]
       IN  IF n = 0
           THEN UNCHANGED <<imageQueue, processedCount, items, runs>>
           ELSE /\ items' = items \o [k \in 1 .. n |-> NewItem(validFiles[k])]
                /\ imageQueue' = ids
                /\ processedCount' = 0
                /\ runs' = Append(runs,
                      IF n = 1
                      THEN [kind |-> "single", pc |-> "loadImage", item |-> ids[1],
                            ids |-> ids, loads |-> {}, i |-> 0, waiting |-> {}]
                      ELSE [kind |-> "queue", pc |-> "loading", item |-> 0, ids |-> ids,
                            loads |-> {ids[k] : k \in 1 .. n}, i |-> 0, waiting |-> {}])
    /\ lastSelection' = "handled"
    /\ UNCHANGED <<captures, createState, i18nState, initState, engine,
                   downloadAllShown>>
    /\ UNCHANGED regionVars
    /\ UNCHANGED blendVars
    /\ UNCHANGED libraryVars

\* processSingle: loadImage(item.file) resolved
SingleLoaded(r, size) ==
    /\ runs[r].kind = "single" /\ runs[r].pc = "loadImage"
    /\ items' = [items EXCEPT ![runs[r].item].originalImg = size]
    /\ runs' = [runs EXCEPT ![r].pc = "checkOriginal"]
    /\ UNCHANGED <<captures, createState, i18nState, initState, engine, imageQueue,
                   processedCount, downloadAllShown, lastSelection>>
    /\ UNCHANGED regionVars
    /\ UNCHANGED blendVars
    /\ UNCHANGED libraryVars

\* processSingle: loadImage(item.file) rejected; the error is rethrown
SingleLoadFailed(r) ==
    /\ runs[r].kind = "single" /\ runs[r].pc = "loadImage"
    /\ runs' = [runs EXCEPT ![r].pc = "failed"]
    /\ UNCHANGED <<captures, createState, i18nState, initState, engine, imageQueue,
                   processedCount, items, downloadAllShown, lastSelection>>
    /\ UNCHANGED regionVars
    /\ UNCHANGED blendVars
    /\ UNCHANGED libraryVars

\* processSingle: checkOriginal resolved (it never rejects); getWatermarkInfo,
\* removeWatermarkFromImage, then result.toBlob is pending
SingleRestore(r) ==
    /\ runs[r].kind = "single" /\ runs[r].pc = "checkOriginal"
    /\ LET id == runs[r].item
           res == removeWatermarkFromImage(engine, items[id].originalImg, Undefined)
       IN  /\ items' = [items EXCEPT ![id].restore = RestoreRecord(res)]
           /\ engine' = res.engine
           /\ runs' = [runs EXCEPT ![r].pc = IF res.outcome = "ok" THEN "toBlob"
                                             ELSE "failed"]
    /\ UNCHANGED <<captures, createState, i18nState, initState, imageQueue,
                   processedCount, downloadAllShown, lastSelection>>
    /\ UNCHANGED regionVars
    /\ UNCHANGED blendVars
    /\ UNCHANGED libraryVars

\* processSingle: the toBlob callback; URL.createObjectURL(null) throws
SingleToBlob(r, blob) ==
    /\ runs[r].kind = "single" /\ runs[r].pc = "toBlob"
    /\ items' = [items EXCEPT ![runs[r].item] =
                    [@ EXCEPT !.processedBlob = blob,
                              !.processedUrl = IF blob = "blob" THEN "url" ELSE @]]
    /\ runs' = [runs EXCEPT ![r].pc = IF blob = "blob" THEN "done" ELSE "failed"]
    /\ UNCHANGED <<captures, createState, i18nState, initState, engine, imageQueue,
                   processedCount, downloadAllShown, lastSelection>>
    /\ UNCHANGED regionVars
    /\ UNCHANGED blendVars
    /\ UNCHANGED libraryVars

\* processQueue, first phase: loadImage of one item resolved; when it was the
\* last one the batch loop starts
QueueItemLoaded(r, id, size) ==
    /\ runs[r].kind = "queue" /\ id \in runs[r].loads
    /\ IF runs[r].pc = "loading" /\ runs[r].loads = {id}
       THEN ContinueRun(r, {},
                        RunBatches([items EXCEPT ![id].originalImg = size], engine,
                                   imageQueue, 0),
                        processedCount)
       ELSE /\ items' = [items EXCEPT ![id].originalImg = size]
            /\ runs' = [runs EXCEPT ![r].loads = @ \ {id}]
            /\ UNCHANGED <<engine, downloadAllShown>>
    /\ UNCHANGED <<captures, createState, i18nState, initState, imageQueue,
                   processedCount, lastSelection>>
    /\ UNCHANGED regionVars
    /\ UNCHANGED blendVars
    /\ UNCHANGED libraryVars

\* processQueue, first phase: loadImage of one item rejected; Promise.all and
\* with it processQueue reject, the other loads go on
QueueItemLoadFailed(r, id) ==
    /\ runs[r].kind = "queue" /\ id \in runs[r].loads
    /\ runs' = [runs EXCEPT ![r] = [@ EXCEPT !.loads = @ \ {id},
                                             !.pc = IF @ = "loading" THEN "aborted" ELSE @]]
    /\ UNCHANGED <<captures, createState, i18nState, initState, engine, imageQueue,
                   processedCount, items, downloadAllShown, lastSelection>>
    /\ UNCHANGED regionVars
    /\ UNCHANGED blendVars
    /\ UNCHANGED libraryVars

\* an item whose toBlob callback delivered blob: URL.createObjectURL(null)
\* throws and the item ends as 'error', otherwise it is 'completed'
SettleItem(item, blob) ==
    [item EXCEPT !.processedBlob = blob,
                 !.processedUrl = IF blob = "blob" THEN "url" ELSE @,
                 !.status = IF blob = "blob" THEN "completed" ELSE "error"]

\* processQueue, batch loop: the toBlob callback of one item of the current
\* slice; when the slice is settled the loop goes on over the current imageQueue
QueueToBlob(r, id, blob) ==
    /\ runs[r].kind = "queue" /\ runs[r].pc = "batch" /\ id \in runs[r].waiting
    /\ processedCount' = IF blob = "blob" THEN processedCount + 1 ELSE processedCount
    /\ IF runs[r].waiting = {id}
       THEN ContinueRun(r, runs[r].loads,
                        RunBatches([items EXCEPT ![id] = SettleItem(@, blob)], engine,
                                   imageQueue, runs[r].i + concurrency),
                        processedCount')
       ELSE /\ items' = [items EXCEPT ![id] = SettleItem(@, blob)]
            /\ runs' = [runs EXCEPT ![r].waiting = @ \ {id}]
            /\ UNCHANGED <<engine, downloadAllShown>>
    /\ UNCHANGED <<captures, createState, i18nState, initState, imageQueue,
                   lastSelection>>
    /\ UNCHANGED regionVars
    /\ UNCHANGED blendVars
    /\ UNCHANGED libraryVars

\* the reset button: ui.resetUI() and processor.reset()
Reset ==
    /\ initState = "ready"
    /\ imageQueue' = <<>>
    /\ processedCount' = 0
    /\ UNCHANGED <<captures, createState, i18nState, initState, engine, items, runs,
                   downloadAllShown, lastSelection>>
    /\ UNCHANGED regionVars
    /\ UNCHANGED blendVars
    /\ UNCHANGED libraryVars

Init ==
    /\ InitApp
    /\ imageWidth = 1
    /\ imageHeight = 1
    /\ watermarkType = WATERMARK_TYPE.GEMINI
    /\ config = NoResult
    /\ position = NoResult
    /\ alphaSource = NoResult
    /\ BlendIdle

Next ==
    \/ StartInit
    \/ \E c \in CaptureNames : CaptureLoaded(c)
    \/ \E c \in CaptureNames : CaptureFailed(c)
    \/ I18nResolved
    \/ I18nRejected
    \/ FilesSelectedEarly
    \/ \E files \in Selections : HandleFiles(files)
    \/ \E r \in DOMAIN runs, size \in ImageSizes : SingleLoaded(r, size)
    \/ \E r \in DOMAIN runs : SingleLoadFailed(r)
    \/ \E r \in DOMAIN runs : SingleRestore(r)
    \/ \E r \in DOMAIN runs, blob \in {"blob", "null"} : SingleToBlob(r, blob)
    \/ \E r \in DOMAIN runs, id \in DOMAIN items, size \in ImageSizes :
          QueueItemLoaded(r, id, size)
    \/ \E r \in DOMAIN runs, id \in DOMAIN items : QueueItemLoadFailed(r, id)
    \/ \E r \in DOMAIN runs, id \in DOMAIN items, blob \in {"blob", "null"} :
          QueueToBlob(r, id, blob)
    \/ Reset

Spec == Init /\ [][Next]_vars

\* a callback of some processQueue run: a loadImage promise settles or a
\* toBlob callback is delivered
QueueCallback ==
    \E r \in DOMAIN runs, id \in DOMAIN items :
        \/ \E size \in ImageSizes : QueueItemLoaded(r, id, size)
        \/ QueueItemLoadFailed(r, id)
        \/ \E blob \in {"blob", "null"} : QueueToBlob(r, id, blob)

\* some processQueue run has a callback outstanding; this is the condition
\* under which QueueCallback is enabled
CallbackPending ==
    \E r \in DOMAIN runs :
        /\ runs[r].kind = "queue"
        /\ runs[r].loads # {} \/ (runs[r].pc = "batch" /\ runs[r].waiting # {})

\* a callback of the initialisation: a reference capture or the locale settles
InitCallback ==
    \/ \E c \in CaptureNames : CaptureLoaded(c) \/ CaptureFailed(c)
    \/ I18nResolved
    \/ I18nRejected

\* the application with the event loop's guarantee: FileReader and Image
\* events, promise reactions and toBlob callbacks are tasks of the browser's
\* event loop, which runs every queued task, so a callback that stays
\* outstanding is eventually delivered. For the callbacks of processQueue the
\* weak fairness condition WF_vars(QueueCallback) is written out, with
\* CallbackPending for ENABLED <<QueueCallback>>_vars.
SpecLive ==
    /\ Init
    /\ [][Next]_vars
    /\ WF_vars(InitCallback)
    /\ []<>(~CallbackPending) \/ []<><<QueueCallback>>_vars

\* ------------------------------------------------------------------------
\* The engine called directly: callers of a Ready engine that pass a variant
\* ------------------------------------------------------------------------

\* the images handed to the engine
EngineImages ==
    {[width |-> 1, height |-> 1], [width |-> 60, height |-> 60],
     [width |-> 2048, height |-> 2048]}

\* the watermarkType argument of removeWatermarkFromImage and getWatermarkInfo
VariantArgs ==
    {Undefined, WATERMARK_TYPE.GEMINI, WATERMARK_TYPE.DOUBAO, WATERMARK_TYPE.UNKNOWN}

\* the argument of setWatermarkType
TypeArgs == {WATERMARK_TYPE.GEMINI, WATERMARK_TYPE.DOUBAO, WATERMARK_TYPE.UNKNOWN, "auto"}

\* the state after `await WatermarkEngine.create()` has returned the engine
InitEngine ==
    /\ captures = [c \in CaptureNames |-> "loaded"]
    /\ createState = "resolved"
    /\ i18nState = "notCalled"
    /\ initState = "notStarted"
    /\ engine = NewEngine
    /\ imageQueue = <<>>
    /\ processedCount = 0
    /\ items = <<>>
    /\ runs = <<>>
    /\ downloadAllShown = FALSE
    /\ lastSelection = "none"
    /\ calls = <<>>
    /\ imageWidth = 1
    /\ imageHeight = 1
    /\ watermarkType = WATERMARK_TYPE.GEMINI
    /\ config = NoResult
    /\ position = NoResult
    /\ alphaSource = NoResult
    /\ BlendIdle

\* engine.setWatermarkType(type)
CallSetWatermarkType(type) ==
    /\ engine' = setWatermarkType(engine, type)
    /\ UNCHANGED <<captures, createState, i18nState, initState, imageQueue,
                   processedCount, items, runs, downloadAllShown, lastSelection>>
    /\ UNCHANGED calls
    /\ UNCHANGED regionVars
    /\ UNCHANGED blendVars

\* what a caller holds of a call of removeWatermarkFromImage that has reached
\* `await this.getAlphaMap(config)` (result r): removeWatermark has not run yet
RestoreCall(image, wtype, r) ==
    [kind |-> "restore", image |-> image, watermarkType |-> wtype,
     pc |-> IF r.outcome = "ok" THEN "awaiting" ELSE "rejected",
     config |-> r.config, position |-> r.position, alphaMap |-> r.alphaMap, touched |-> EmptyRegion,
     info |-> NoResult]

\* engine.removeWatermarkFromImage(image, watermarkType) up to its await:
\* getAlphaMap has run to completion, the cache holds the map
CallRemoveWatermarkFromImage(image, wtype) ==
    /\ Len(calls) < MaxCalls
    /\ engine' = removeWatermarkFromImage(engine, image, wtype).engine
    /\ calls' = Append(calls,
                       RestoreCall(image, wtype,
                                   removeWatermarkFromImage(engine, image, wtype)))
    /\ UNCHANGED <<captures, createState, i18nState, initState, imageQueue,
                   processedCount, items, runs, downloadAllShown, lastSelection>>
    /\ UNCHANGED regionVars
    /\ UNCHANGED blendVars

\* variant: removeWatermark is handed the whole canvas as its rectangle
ResumeRemoveWatermarkFromImage_WholeCanvas(c) ==
    /\ calls[c].kind = "restore" /\ calls[c].pc = "awaiting"
    /\ calls' = [calls EXCEPT ![c] =
                    [@ EXCEPT !.pc = "returned",
                              !.touched = removeWatermark(calls[c].image,
                                                          calls[c].alphaMap,
                                                          [x |-> 0, y |-> 0,
                                                           width |-> calls[c].image.width,
                                                           height |-> calls[c].image.height])]]
    /\ UNCHANGED appVars
    /\ UNCHANGED regionVars
    /\ UNCHANGED blendVars

\* the continuation of removeWatermarkFromImage after the await: removeWatermark
\* with the map the call obtained, putImageData, return
ResumeRemoveWatermarkFromImage(c) ==
    /\ calls[c].kind = "restore" /\ calls[c].pc = "awaiting"
    /\ calls' = [calls EXCEPT ![c] =
                    [@ EXCEPT !.pc = "returned",
                              !.touched = removeWatermark(calls[c].image,
                                                          calls[c].alphaMap,
                                                          calls[c].position)]]
    /\ UNCHANGED appVars
    /\ UNCHANGED regionVars
    /\ UNCHANGED blendVars

\* engine.getWatermarkInfo(image.width, image.height, watermarkType)
CallGetWatermarkInfo(image, wtype) ==
    /\ Len(calls) < MaxCalls
    /\ calls' = Append(calls,
                       [kind |-> "info", image |-> image, watermarkType |-> wtype,
                        pc |-> "returned", config |-> NoResult,
                        position |-> NoResult, alphaMap |-> NoResult,
                        touched |-> EmptyRegion,
                        info |-> getWatermarkInfo(engine, image.width, image.height,
                                                  wtype)])
    /\ UNCHANGED appVars
    /\ UNCHANGED regionVars
    /\ UNCHANGED blendVars

NextEngine ==
    \/ \E type \in TypeArgs : CallSetWatermarkType(type)
    \/ \E image \in EngineImages, wtype \in VariantArgs :
          CallRemoveWatermarkFromImage(image, wtype)
    \/ \E c \in DOMAIN calls : ResumeRemoveWatermarkFromImage(c)
    \/ \E image \in EngineImages, wtype \in VariantArgs :
          CallGetWatermarkInfo(image, wtype)

SpecEngine == InitEngine /\ [][NextEngine]_vars

\* ------------------------------------------------------------------------
\* The reverse compositor as a state machine: one channel, composited by the
\* forward model or read from an image, then restored
\* ------------------------------------------------------------------------

\* the opacities drawn, in thousandths
BlendAlphas == {0, 1, 2, 250, 333, 500, 666, 667, 668, 900, 998, 999, 1000}

\* the tints drawn
BlendTints == {0, 128, 255}

InitBlend ==
    /\ blendAlpha \in BlendAlphas
    /\ blendTint \in BlendTints
    /\ blendTrue \in Bytes \cup {-1}
    /\ blendObserved = -1
    /\ blendRestored = <<>>
    /\ InitApp
    /\ imageWidth = 1
    /\ imageHeight = 1
    /\ watermarkType = WATERMARK_TYPE.GEMINI
    /\ config = NoResult
    /\ position = NoResult
    /\ alphaSource = NoResult

\* the watermark is painted over a known true value
Composite ==
    /\ blendTrue # -1 /\ blendObserved = -1
    /\ blendObserved' = compositeForward(blendAlpha, blendTint, blendTrue)
    /\ UNCHANGED <<blendAlpha, blendTint, blendTrue, blendRestored>>
    /\ UNCHANGED appVars
    /\ UNCHANGED libraryVars
    /\ UNCHANGED regionVars

\* the channel is read from an image whose true value is not known
ReadObserved(observed) ==
    /\ blendTrue = -1 /\ blendObserved = -1
    /\ blendObserved' = observed
    /\ UNCHANGED <<blendAlpha, blendTint, blendTrue, blendRestored>>
    /\ UNCHANGED appVars
    /\ UNCHANGED libraryVars
    /\ UNCHANGED regionVars

ApplyReverseBlend ==
    /\ blendObserved # -1 /\ blendRestored = <<>>
    /\ blendRestored' = <<applyReverseBlend(blendAlpha, blendTint, blendObserved)>>
    /\ UNCHANGED <<blendAlpha, blendTint, blendTrue, blendObserved>>
    /\ UNCHANGED appVars
    /\ UNCHANGED libraryVars
    /\ UNCHANGED regionVars

NextBlend ==
    \/ Composite
    \/ \E observed \in Bytes : ReadObserved(observed)
    \/ ApplyReverseBlend

SpecBlend == InitBlend /\ [][NextBlend]_vars

\* ------------------------------------------------------------------------
\* File selection alone: a ready page, selections drawn from every kind of
\* file, and the reset button; no callback of the processing is delivered
\* ------------------------------------------------------------------------

\* every type with the sizes on both sides of the limit
FilterFiles ==
    [type : {MimePng, MimeJpeg, MimeWebp, MimeGif, MimeJpeg2000},
     size : {MaxFileBytes, MaxFileBytes + 1}]

FilterSelections == UNION {[1 .. n -> FilterFiles] : n \in 1 .. MaxFiles}

\* the page after init() has installed its listeners
InitFilter ==
    /\ captures = [c \in CaptureNames |-> "loaded"]
    /\ createState = "resolved"
    /\ i18nState = "resolved"
    /\ initState = "ready"
    /\ engine = NewEngine
    /\ imageQueue = <<>>
    /\ processedCount = 0
    /\ items = <<>>
    /\ runs = <<>>
    /\ downloadAllShown = FALSE
    /\ lastSelection = "none"
    /\ calls = <<>>
    /\ imageWidth = 1
    /\ imageHeight = 1
    /\ watermarkType = WATERMARK_TYPE.GEMINI
    /\ config = NoResult
    /\ position = NoResult
    /\ alphaSource = NoResult
    /\ BlendIdle

NextFilter ==
    \/ \E files \in FilterSelections : HandleFiles(files)
    \/ Reset

SpecFilter == InitFilter /\ [][NextFilter]_vars

\* ------------------------------------------------------------------------
\* Properties of the region resolver (checked under SpecRegion)
\* ------------------------------------------------------------------------

Resolved == config # NoResult

SupportedVariant == watermarkType \in {WATERMARK_TYPE.GEMINI, WATERMARK_TYPE.DOUBAO}

ShortEdge == Min(imageWidth, imageHeight)

RectInside ==
    /\ position.x >= 0
    /\ position.y >= 0
    /\ position.x + position.width <= imageWidth
    /\ position.y + position.height <= imageHeight
    /\ position.width >= 0
    /\ position.height >= 0

\* C1 as stated: for every supported variant and every image with positive
\* width and height the resolved rectangle lies fully inside the image.
C1_RectInsideEveryImage ==
    (Resolved /\ SupportedVariant) => RectInside

\* smallest shorter edge a Gemini rectangle fits in: 48 + 32
GeminiMinEdge == 48 + 32

\* C1 amended: the rectangle never crosses the right or bottom border and has
\* non-negative width and height; it lies fully inside the image for Doubao
\* always and for Gemini exactly when the shorter edge is at least 80 (48 + 32);
\* a Gemini image with a shorter edge below 80 gets a negative x or y.
C1_RectInsideFromMinEdge ==
    (Resolved /\ SupportedVariant) =>
        /\ position.width >= 0
        /\ position.height >= 0
        /\ position.x + position.width <= imageWidth
        /\ position.y + position.height <= imageHeight
        /\ (watermarkType = WATERMARK_TYPE.DOUBAO \/ ShortEdge >= GeminiMinEdge)
              => RectInside
        /\ (watermarkType = WATERMARK_TYPE.GEMINI /\ ShortEdge < GeminiMinEdge)
              => (position.x < 0 \/ position.y < 0)

C1_Witness ==
    /\ Resolved
    /\ watermarkType = WATERMARK_TYPE.GEMINI
    /\ imageWidth = 80 /\ imageHeight = 80
    /\ position = [x |-> 0, y |-> 0, width |-> 48, height |-> 48]

\* round(v0 + (v1 - v0) / (3058 - 2048) * (e - 2048)), the interpolation through
\* the calibration points (2048, v0) and (3058, v1)
CalibrationInterpolation(v0, v1, e) ==
    (2 * (v0 * 1010 + (v1 - v0) * (e - 2048)) + 1010) \div 2020

\* C5: for the Gemini variant and every short edge > 2048, size and margin equal
\* the rounded interpolation through (2048, 96, 64) and (3058, 173, 104).
C5_InterpolationThroughCalibration ==
    (Resolved /\ watermarkType = WATERMARK_TYPE.GEMINI /\ ShortEdge > 2048) =>
        /\ config.width = CalibrationInterpolation(96, 173, ShortEdge)
        /\ config.height = CalibrationInterpolation(96, 173, ShortEdge)
        /\ config.marginRight = CalibrationInterpolation(64, 104, ShortEdge)
        /\ config.marginBottom = CalibrationInterpolation(64, 104, ShortEdge)

\* C6: the Gemini resolution matches the calibration points exactly: short edge
\* 2048 gives size 96 and margin 64, short edge 3058 gives size 173 and margin 104.
C6_CalibrationPoints ==
    (Resolved /\ watermarkType = WATERMARK_TYPE.GEMINI) =>
        /\ ShortEdge = 2048 =>
              /\ config.width = 96 /\ config.height = 96
              /\ config.marginRight = 64 /\ config.marginBottom = 64
        /\ ShortEdge = 3058 =>
              /\ config.width = 173 /\ config.height = 173
              /\ config.marginRight = 104 /\ config.marginBottom = 104

C6_Witness ==
    /\ Resolved
    /\ watermarkType = WATERMARK_TYPE.GEMINI
    /\ imageWidth = 4096 /\ imageHeight = 3058
    /\ config.width = 173 /\ config.marginRight = 104

\* C7: for the Gemini variant size and margin are non-decreasing in the short
\* edge beyond 2048: a resolved image with short edge e1 > 2048 never has a
\* larger size or margin than any image with short edge e2 >= e1.
C7_MonotonicBeyondLargestBucket ==
    (Resolved /\ watermarkType = WATERMARK_TYPE.GEMINI /\ ShortEdge > 2048) =>
        \A w2 \in Edges, h2 \in Edges :
            Min(w2, h2) >= ShortEdge =>
                LET c2 == detectWatermarkConfig(w2, h2, WATERMARK_TYPE.GEMINI)
                IN  /\ config.width <= c2.width
                    /\ config.height <= c2.height
                    /\ config.marginRight <= c2.marginRight
                    /\ config.marginBottom <= c2.marginBottom

C7_Witness ==
    /\ Resolved
    /\ watermarkType = WATERMARK_TYPE.GEMINI
    /\ imageWidth = 4096 /\ imageHeight = 2049
    /\ config.width = 96
    /\ detectWatermarkConfig(2090, 2090, WATERMARK_TYPE.GEMINI).width > 96

C9_AspectClassification ==
    (Resolved /\ watermarkType = WATERMARK_TYPE.DOUBAO) =>
        /\ (5 * imageWidth < 4 * imageHeight) => config.aspectCategory = "2x3"
        /\ (5 * imageWidth > 6 * imageHeight) => config.aspectCategory = "3x2"
        /\ (5 * imageWidth >= 4 * imageHeight /\ 5 * imageWidth <= 6 * imageHeight)
              => config.aspectCategory = "1x1"
        /\ (5 * imageWidth = 4 * imageHeight \/ 5 * imageWidth = 6 * imageHeight)
              => config.aspectCategory = "1x1"
        /\ \A w2 \in Edges, h2 \in Edges :
              imageWidth * h2 = w2 * imageHeight =>
                  detectWatermarkConfig(w2, h2, WATERMARK_TYPE.DOUBAO).aspectCategory
                      = config.aspectCategory

C9_Witness ==
    /\ Resolved
    /\ watermarkType = WATERMARK_TYPE.DOUBAO
    /\ imageWidth = 4 /\ imageHeight = 5
    /\ config.aspectCategory = "1x1"

\* the integer nearest to n / d, halves rounded up (n >= 0, d > 0)
NearestInteger(n, d) ==
    CHOOSE k \in 0 .. (n \div d + 1) : 2 * k * d - d <= 2 * n /\ 2 * n < 2 * k * d + d

\* C10: for the Doubao variant width, height, marginRight and marginBottom each
\* equal round(measured value of the selected bucket * min(imageWidth, imageHeight)
\* / min(refWidth, refHeight)); an image with exactly the bucket's reference
\* dimensions gets exactly the measured values.
C10_DoubaoShortEdgeScaling ==
    (Resolved /\ watermarkType = WATERMARK_TYPE.DOUBAO) =>
        LET ref == DOUBAO_CONFIGS[config.aspectCategory]
            r == Min(ref.refWidth, ref.refHeight)
        IN  /\ config.width = NearestInteger(ref.wmWidth * ShortEdge, r)
            /\ config.height = NearestInteger(ref.wmHeight * ShortEdge, r)
            /\ config.marginRight = NearestInteger(ref.marginRight * ShortEdge, r)
            /\ config.marginBottom = NearestInteger(ref.marginBottom * ShortEdge, r)
            /\ (imageWidth = 2048 /\ imageHeight = 2048) =>
                  /\ config.width = 282 /\ config.height = 123
                  /\ config.marginRight = 57 /\ config.marginBottom = 54
            /\ (imageWidth = 1672 /\ imageHeight = 2508) =>
                  /\ config.width = 225 /\ config.height = 43
                  /\ config.marginRight = 50 /\ config.marginBottom = 50
            /\ (imageWidth = 2508 /\ imageHeight = 1672) =>
                  /\ config.width = 296 /\ config.height = 71
                  /\ config.marginRight = 53 /\ config.marginBottom = 53

C10_Witness ==
    /\ Resolved
    /\ watermarkType = WATERMARK_TYPE.DOUBAO
    /\ imageWidth = 1672 /\ imageHeight = 2508
    /\ config.aspectCategory = "2x3"
    /\ config.width = 225 /\ config.height = 43

\* C11: for every watermarkType argument and every image with positive integer
\* width and height, the width, height, marginRight and marginBottom returned by
\* detectWatermarkConfig are non-negative integers.
C11_NonNegativeDimensions ==
    Resolved =>
        /\ config.width \in Nat /\ config.height \in Nat
        /\ config.marginRight \in Nat /\ config.marginBottom \in Nat

\* a Doubao image so small that a scaled dimension rounds down to zero, the
\* smallest value the claim allows
C11_Witness ==
    /\ Resolved
    /\ watermarkType = WATERMARK_TYPE.DOUBAO
    /\ imageWidth = 1 /\ imageHeight = 1
    /\ config.width = 0 /\ config.height = 0
    /\ config.marginRight = 0 /\ config.marginBottom = 0

\* the shortest edge for which both scaled Doubao dimensions round to at
\* least 1: the least s with 2 * wmHeight * s >= refShortEdge
DoubaoMinShortEdge == [c \in {"1x1", "2x3", "3x2"} |->
                          CASE c = "1x1" -> 9 [] c = "2x3" -> 20 [] c = "3x2" -> 12]

\* C29 as stated: for every supported variant and every image with positive
\* width and height, the resolved watermark width and height are at least 1.
C29_DimensionsAtLeastOne ==
    (Resolved /\ SupportedVariant) => (config.width >= 1 /\ config.height >= 1)

\* C29, amended: a Gemini watermark is at least 48 x 48 for every image; a
\* Doubao watermark has width and height of at least 1 exactly when the
\* image's shorter edge is at least 9 (1x1), 20 (2x3) or 12 (3x2) pixels.
C29_DimensionsAtLeastOneFromMinEdge ==
    (Resolved /\ SupportedVariant) =>
        IF watermarkType = WATERMARK_TYPE.GEMINI
        THEN config.width >= 48 /\ config.height >= 48
        ELSE (config.width >= 1 /\ config.height >= 1)
                 <=> ShortEdge >= DoubaoMinShortEdge[config.aspectCategory]

\* a portrait Doubao image whose shorter edge is the least one that gives a
\* watermark of height 1
C29_Witness ==
    /\ Resolved
    /\ watermarkType = WATERMARK_TYPE.DOUBAO
    /\ config.aspectCategory = "2x3"
    /\ ShortEdge = 20
    /\ config.height = 1 /\ config.width >= 1

\* the edges of the second image of a pair: degenerate images and the two
\* sides of every size bucket
PairEdges == {1, 2, 20, 1024, 1025, 2048, 2049, 4096}

\* the capture and crop that a cache key stands for, read off the key alone
SourceOfKey(key) ==
    IF key[1] = WATERMARK_TYPE.DOUBAO
    THEN [capture |-> "doubao" \o key[2], crop |-> "full"]
    ELSE IF key[3] <= 48
    THEN [capture |-> "bg48", crop |-> "48x48"]
    ELSE [capture |-> "bg96", crop |-> "96x96"]

\* the config of a second image has the key of the resolved one
SameKey(w, h, t) == CacheKey(detectWatermarkConfig(w, h, t)) = CacheKey(config)

\* C30: any two configs produced by detectWatermarkConfig that yield the same
\* cache key select the same reference capture and the same source crop, and a
\* fresh derivation gives the same map for both; the key alone determines the
\* capture and the crop.
C30_SameKeySameSource ==
    Resolved =>
        /\ alphaSource = SourceOfKey(CacheKey(config))
        /\ \A w \in PairEdges, h \in PairEdges, t \in WatermarkArgs :
               SameKey(w, h, t) =>
                   /\ AlphaSource(detectWatermarkConfig(w, h, t)) = alphaSource
                   /\ DeriveAlphaMap(detectWatermarkConfig(w, h, t)) = DeriveAlphaMap(config)

\* a square Doubao image whose key is also the key of a different image
C30_Witness ==
    /\ Resolved
    /\ watermarkType = WATERMARK_TYPE.DOUBAO
    /\ imageWidth = 2048 /\ imageHeight = 2048
    /\ CacheKey(config) = CacheKey(detectWatermarkConfig(2049, 2048, WATERMARK_TYPE.DOUBAO))
    /\ alphaSource = AlphaSource(detectWatermarkConfig(2049, 2048, WATERMARK_TYPE.DOUBAO))

\* ------------------------------------------------------------------------
\* Properties of the application (checked under Spec)
\* ------------------------------------------------------------------------

\* the restore calls made so far, one per item
RestoreCalls == {items[id].restore : id \in {k \in DOMAIN items : items[k].restore # NoResult}}

\* C2: when the computed rectangle does not fit inside the image,
\* removeWatermarkFromImage reports a per-call error and leaves the pixel buffer
\* unmodified.
C2_OutOfBoundsRejected ==
    \A r \in RestoreCalls :
        (r.called /\ r.position # NoResult /\ ~r.fits) =>
            (r.outcome # "ok" /\ r.touched = EmptyRegion)

\* C3 as stated: no restore call happens before WatermarkEngine.create() has
\* resolved, and a processing request issued before Ready fails with an
\* initialization error (it is never left unanswered).
C3_EarlyRequestFailsWithInitError ==
    /\ (RestoreCalls # {}) => createState = "resolved"
    /\ lastSelection \in {"none", "handled", "initializationError"}

\* C3 amended: the engine variable is set exactly when create() has resolved; a
\* restore call, a queue item or a processing run exists only once create() has
\* resolved and the listeners are installed; no restore call ever hits a null
\* engine; a file selection made before that is ignored: it creates no item,
\* starts no run and reports no error.
C3_RestoreOnlyWhenReady ==
    /\ (engine # NullEngine) <=> (createState = "resolved")
    /\ (createState = "notCalled") <=> (initState = "notStarted")
    /\ (RestoreCalls # {} \/ items # <<>> \/ runs # <<>>) =>
          (createState = "resolved" /\ initState = "ready")
    /\ \A r \in RestoreCalls : r.called
    /\ lastSelection \in {"none", "ignored", "handled"}
    /\ (lastSelection = "ignored") => (items = <<>> /\ runs = <<>> /\ processedCount = 0)

C3_Witness ==
    /\ createState = "resolved"
    /\ lastSelection = "handled"
    /\ \E r \in RestoreCalls : r.called /\ r.outcome = "ok"

\* C4: create() resolves to an engine if and only if all five captures loaded;
\* if any one fails create() rejects, the processor's engine stays null, the
\* listeners are never installed and no image is ever processed.
C4_InitAllOrNothing ==
    /\ (createState = "resolved") <=> AllLoaded(captures)
    /\ (createState = "rejected") <=> (\E c \in CaptureNames : captures[c] = "failed")
    /\ (engine # NullEngine) => AllLoaded(captures)
    /\ (\E c \in CaptureNames : captures[c] = "failed") =>
          /\ engine = NullEngine
          /\ initState = "failed"
          /\ items = <<>> /\ runs = <<>> /\ imageQueue = <<>>
          /\ processedCount = 0

C4_Witness ==
    /\ \E c \in CaptureNames :
          /\ captures[c] = "failed"
          /\ \A d \in CaptureNames \ {c} : captures[d] = "loaded"
    /\ createState = "rejected"
    /\ engine = NullEngine
    /\ lastSelection = "ignored"

\* the processQueue runs that are over (no callback of theirs is pending) while
\* their queue is still the current imageQueue
FinishedBatches ==
    {r \in DOMAIN runs :
        /\ runs[r].kind = "queue"
        /\ runs[r].pc \in {"done", "aborted"}
        /\ runs[r].loads = {}
        /\ runs[r].ids = imageQueue}

\* C18: in batch mode a failure on one image, while loading it or while
\* restoring it, never aborts the batch: when processQueue is over every item of
\* its queue is 'completed' or 'error'.
C18_BatchNeverAborted ==
    \A r \in FinishedBatches :
        \A k \in DOMAIN runs[r].ids :
            items[runs[r].ids[k]].status \in {"completed", "error"}

\* C19: at every moment at most 3 items have status 'processing'.
C19_AtMostThreeProcessing ==
    Cardinality({id \in DOMAIN items : items[id].status = "processing"}) <= concurrency

\* the status changes one step of the program can make to an item; an item
\* whose restore call fails is set to 'processing' and then to 'error' within
\* the same step, which shows as 'pending' to 'error'
StatusSteps ==
    {<<"pending", "processing">>, <<"pending", "error">>,
     <<"processing", "completed">>, <<"processing", "error">>}

\* C25: every queue item follows pending -> processing -> (completed | error):
\* 'completed' and 'error' are terminal, 'processing' is entered only from
\* 'pending' (so never twice), and an item is 'completed' only if it has a
\* processedBlob and a processedUrl.
C25_ItemLifecycle ==
    [][\A id \in DOMAIN items :
           /\ items'[id].status # items[id].status =>
                 <<items[id].status, items'[id].status>> \in StatusSteps
           /\ items'[id].status = "completed" =>
                 (items'[id].processedBlob = "blob" /\ items'[id].processedUrl = "url")]_vars

\* C26: at every moment processedCount equals the number of items of the
\* current imageQueue whose status is 'completed'.
C26_CountMatchesQueue ==
    processedCount =
        Cardinality({k \in DOMAIN imageQueue : items[imageQueue[k]].status = "completed"})

\* C27: an item is passed to engine.removeWatermarkFromImage only after its
\* image has been loaded: no restore call is made with a null image.
C27_RestoreOnlyLoadedImages ==
    \A id \in DOMAIN items :
        (items[id].restore # NoResult /\ items[id].restore.called) =>
            items[id].restore.outcome # "TypeError"

\* the processQueue runs and the queue items there can be
RunIds == 1 .. MaxSelections
ItemIds == 1 .. MaxSelections * MaxFiles

QueueRun(r) == r \in DOMAIN runs /\ runs[r].kind = "queue"
RunOver(r) == QueueRun(r) /\ runs[r].pc \in {"done", "aborted"}
Settled(id) == id \in DOMAIN items /\ items[id].status \in {"completed", "error"}

\* the step in which processQueue run r leaves its batch loop
RunEnds(r) == QueueRun(r) /\ runs[r].pc # "done" /\ runs'[r].pc = "done"

C23_OnlySupportedFilesQueued ==
    \A id \in DOMAIN items :
        /\ items[id].file.type \in {MimeJpeg, MimePng, MimeWebp}
        /\ items[id].file.size <= MaxFileBytes

\* ------------------------------------------------------------------------
\* Properties of the engine called directly (checked under SpecEngine)
\* ------------------------------------------------------------------------

\* the restore calls whose getAlphaMap returned a map
ServedCalls == {c \in DOMAIN calls : calls[c].kind = "restore" /\ calls[c].pc # "rejected"}

\* C12: the alpha-map cache is append-only for the lifetime of an engine: no
\* step removes a key that is present or replaces its value by a different map.
C12_CacheAppendOnly ==
    [][\A k \in DOMAIN engine.alphaMaps :
           /\ k \in DOMAIN engine'.alphaMaps
           /\ engine'.alphaMaps[k] = engine.alphaMaps[k]]_vars

\* two maps were derived one after the other and the first is still cached
C12_Witness ==
    /\ Len(calls) = 2
    /\ ServedCalls = {1, 2}
    /\ calls[1].alphaMap # calls[2].alphaMap
    /\ Cardinality(DOMAIN engine.alphaMaps) = 2
    /\ \E k \in DOMAIN engine.alphaMaps : engine.alphaMaps[k] = calls[1].alphaMap

\* the capture a cache key stands for: the Doubao capture of its aspect bucket,
\* the 48px Gemini capture for the small bucket, the 96px one otherwise
KeyCapture(key) ==
    IF key[1] = WATERMARK_TYPE.DOUBAO THEN "doubao" \o key[2]
    ELSE IF key[2] = "small" THEN "bg48"
    ELSE "bg96"

\* the map is the one derived from the key's capture at the key's width x height
MapOfKey(map, key) ==
    /\ map.capture = KeyCapture(key)
    /\ map.width = key[3]
    /\ map.height = key[4]

\* the key of a call: type, bucket and size of the config the call resolved
OwnKey(call) ==
    <<call.config.type,
      IF call.config.type = WATERMARK_TYPE.DOUBAO THEN call.config.aspectCategory
      ELSE call.config.sizeCategory,
      call.config.width, call.config.height>>

\* C13: under every interleaving of removeWatermarkFromImage calls on one engine,
\* each cached key maps to the alpha map derived from that key's reference
\* capture at that key's width x height, and every call holds the map of its
\* own key.
C13_CacheNeverCorrupted ==
    /\ \A k \in DOMAIN engine.alphaMaps : MapOfKey(engine.alphaMaps[k], k)
    /\ \A c \in ServedCalls :
          /\ MapOfKey(calls[c].alphaMap, OwnKey(calls[c]))
          /\ OwnKey(calls[c]) \in DOMAIN engine.alphaMaps
          /\ engine.alphaMaps[OwnKey(calls[c])] = calls[c].alphaMap

\* two calls in flight at once, with the same key, and two with different keys
C13_Witness ==
    /\ Len(calls) = 2
    /\ calls[1].kind = "restore" /\ calls[1].pc = "awaiting"
    /\ calls[2].kind = "restore" /\ calls[2].pc = "awaiting"
    /\ calls[1].image # calls[2].image
    /\ OwnKey(calls[1]) = OwnKey(calls[2])

\* C14: the alpha map handed to removeWatermark has exactly position.width x
\* position.height entries for the rectangle of the same call, whether it was
\* freshly derived or came from the cache.
C14_MapMatchesRectangle ==
    \A c \in ServedCalls :
        /\ calls[c].alphaMap.width = calls[c].position.width
        /\ calls[c].alphaMap.height = calls[c].position.height

\* a call that was served from the cache has handed its map to removeWatermark
C14_Witness ==
    /\ Len(calls) = 2
    /\ ServedCalls = {1, 2}
    /\ OwnKey(calls[1]) = OwnKey(calls[2])
    /\ Cardinality(DOMAIN engine.alphaMaps) = 1
    /\ calls[2].pc = "returned"
    /\ calls[2].touched # EmptyRegion

\* C15: a restore call with a variant for which the engine has no reference
\* asset (any string other than 'gemini' and 'doubao') is reported as a per-call
\* error and processes no pixels.
C15_UnsupportedVariantRejected ==
    \A c \in DOMAIN calls :
        (/\ calls[c].kind = "restore"
         /\ calls[c].watermarkType \notin
               {Undefined, WATERMARK_TYPE.GEMINI, WATERMARK_TYPE.DOUBAO})
        => (calls[c].pc = "rejected" /\ calls[c].touched = EmptyRegion)

\* the variant a call resolved
ResolvedType(call) ==
    IF call.kind = "info" THEN call.info.type ELSE call.config.type

\* the variant a type string stands for in detectWatermarkConfig
VariantOf(type) ==
    IF type = WATERMARK_TYPE.DOUBAO THEN WATERMARK_TYPE.DOUBAO ELSE WATERMARK_TYPE.GEMINI

\* C16: a call of removeWatermarkFromImage or getWatermarkInfo leaves
\* currentWatermarkType unchanged; a 'gemini' or 'doubao' argument selects the
\* variant of that call, and without an argument the current type is used.
C16_VariantPerCall ==
    [][Len(calls') > Len(calls) =>
          /\ engine'.currentWatermarkType = engine.currentWatermarkType
          /\ ResolvedType(calls'[Len(calls')]) =
                VariantOf(IF calls'[Len(calls')].watermarkType = Undefined
                          THEN engine.currentWatermarkType
                          ELSE calls'[Len(calls')].watermarkType)]_vars

\* one engine whose current type stayed 'gemini' restored a Doubao image and,
\* without an argument, a Gemini image
C16_Witness ==
    /\ Len(calls) = 2
    /\ ServedCalls = {1, 2}
    /\ calls[1].watermarkType = WATERMARK_TYPE.DOUBAO
    /\ calls[1].alphaMap.capture = "doubao1x1"
    /\ calls[2].watermarkType = Undefined
    /\ calls[2].alphaMap.capture = "bg96"
    /\ calls[1].pc = "returned" /\ calls[2].pc = "returned"
    /\ engine.currentWatermarkType = WATERMARK_TYPE.GEMINI

\* C17: a restore call that fails leaves the shared engine state unchanged: the
\* cache gains no entry and currentWatermarkType is as before (the reference
\* captures are never written after construction).
C17_FailedCallLeavesEngine ==
    [][(/\ Len(calls') > Len(calls)
        /\ calls'[Len(calls')].kind = "restore"
        /\ calls'[Len(calls')].pc = "rejected")
       => engine' = engine]_vars

\* a call failed in getAlphaMap (zero-sized Doubao watermark) after another had
\* filled the cache, and the cache holds exactly the earlier call's entry
C17_Witness ==
    /\ Len(calls) = 2
    /\ calls[1].kind = "restore" /\ calls[1].pc = "returned"
    /\ calls[2].kind = "restore" /\ calls[2].pc = "rejected"
    /\ calls[2].config.width = 0
    /\ DOMAIN engine.alphaMaps = {OwnKey(calls[1])}

\* C20: after any restore call every byte of the pixel buffer outside the
\* resolved watermark rectangle is as before: the region a call has rewritten
\* lies inside its rectangle, and a call that has not reached removeWatermark
\* (it is awaiting its alpha map, or was rejected) has rewritten nothing.
C20_MutationInsideRectangle ==
    \A c \in DOMAIN calls :
        calls[c].kind = "restore" =>
            IF calls[c].pc = "returned" /\ calls[c].touched # EmptyRegion
            THEN /\ calls[c].touched.x0 >= calls[c].position.x
                 /\ calls[c].touched.y0 >= calls[c].position.y
                 /\ calls[c].touched.x1 <= calls[c].position.x + calls[c].position.width
                 /\ calls[c].touched.y1 <= calls[c].position.y + calls[c].position.height
            ELSE calls[c].touched = EmptyRegion

\* a returned call on an image larger than its rectangle: the rectangle was
\* rewritten and the image has pixels outside it
C20_Witness ==
    \E c \in DOMAIN calls :
        /\ calls[c].kind = "restore" /\ calls[c].pc = "returned"
        /\ calls[c].image = [width |-> 2048, height |-> 2048]
        /\ calls[c].position = [x |-> 1888, y |-> 1888, width |-> 96, height |-> 96]
        /\ calls[c].touched = [x0 |-> 1888, y0 |-> 1888, x1 |-> 1984, y1 |-> 1984]

\* C24: getWatermarkType() always returns a member of WATERMARK_TYPE: the
\* constructor sets 'gemini' and setWatermarkType stores only members, leaving
\* the engine as it is for any other argument.
C24_CurrentTypeValid ==
    engine.currentWatermarkType \in
        {WATERMARK_TYPE.GEMINI, WATERMARK_TYPE.DOUBAO, WATERMARK_TYPE.UNKNOWN}

\* setWatermarkType has replaced the initial 'gemini' by another member
C24_Witness ==
    engine.currentWatermarkType = WATERMARK_TYPE.UNKNOWN

\* ------------------------------------------------------------------------
\* Properties of the reverse compositor (checked under SpecBlend)
\* ------------------------------------------------------------------------

\* a channel composited from a known true value has been restored
RoundTripDone == blendTrue # -1 /\ blendRestored # <<>>

WithinOne(a, b) == a - b <= 1 /\ b - a <= 1

\* C21 as stated: for every opacity in [0, 0.999] the round trip recovers
\* C_true within +/-1.
C21_RoundTripUpToCeiling ==
    (RoundTripDone /\ blendAlpha <= AlphaCeiling) =>
        WithinOne(blendRestored[1], blendTrue)

\* C21: for every byte C_true, every tint and every opacity below 2/3, the
\* forward model followed by the reverse blend recovers C_true within +/-1.
C21_RoundTripBelowTwoThirds ==
    (RoundTripDone /\ 3 * blendAlpha < 2 * AlphaScale) =>
        WithinOne(blendRestored[1], blendTrue)

\* a round trip at opacity 0.666 that is off by exactly one
C21_Witness ==
    /\ RoundTripDone
    /\ blendAlpha = 666
    /\ blendRestored[1] # blendTrue
    /\ WithinOne(blendRestored[1], blendTrue)

\* C22: for opacity 1.0 exactly and every observed byte the reverse blend
\* returns a value inside [0, 255] (the opacity is clamped to the ceiling, so
\* the divisor is never zero).
C22_OpaqueStaysInByteRange ==
    (blendRestored # <<>> /\ blendAlpha = AlphaScale) =>
        blendRestored[1] \in Bytes

\* opacity 1.0 with an observed value far from the tint: the quotient is far
\* outside the byte range and the result is the clamped bound
C22_Witness ==
    /\ blendAlpha = AlphaScale
    /\ blendTint = 255
    /\ blendObserved = 0
    /\ blendRestored = <<0>>

====
